---- MODULE Spec2Model ----
(***************************************************************************)
(* Model of the change-watch engine of nacos-cli:                          *)
(*   ConfigListener.StartListening (internal/listener/config_listener.go)  *)
(* driven by the handler closure of SkillSyncer.StartSyncMultiple          *)
(* (internal/sync/skill_syncer.go).                                        *)
(*                                                                         *)
(* The remote store, the long-poll server, the stop signal and the fault   *)
(* injection are the environment; everything else is translated from the   *)
(* Go source.                                                              *)
(***************************************************************************)
EXTENDS Integers, Sequences, FiniteSets, TLC

(***************************************************************************)
(* Bounds of the model                                                     *)
(***************************************************************************)
\* longest batch of notifications one long-poll response carries
MaxBatch == 2

\* number of resources the skill.json of a record lists
MaxResources == 2

\* longest list of skill names given to the orchestrator
MaxNames == 2

\* longest watch list, and longest response, given to the payload codec
MaxEntries == 2

\* number of logins of one client that are followed
MaxLogins == 2

\* the port used when none is configured ("%s:8848")
DefaultPort == 8848

\* const maxRetries = 3 in SkillService.GetSkill
maxRetries == 3

(***************************************************************************)
(* Universe                                                                *)
(***************************************************************************)
\* NewNacosClient replaces an empty namespace by "public", so every item the
\* orchestrator builds carries a non-empty tenant.
Namespace == "public"

SkillDataID == "skill.json"

Groups == {"skill_a", "skill_b"}

\* tenants a notification or a fetch can name: omitted, or the client's
Tenants == {"", Namespace}

\* contents an entry of the remote store can have; Absent is "no entry"
Absent == "<absent>"

Contents == {"", "v1", "v2"}

\* the second skill only ever has one content
ContentsOf(g) == IF g = "skill_a" THEN Contents ELSE {"v1"}

Triple(d, g, t) == [DataID |-> d, Group |-> g, Tenant |-> t]

Triples == {Triple(SkillDataID, g, t) : g \in Groups, t \in Tenants}

\* the entries the environment creates, changes and deletes are those of
\* the client's namespace; the default namespace stays empty
ValuesOf(trip) ==
  IF trip.Tenant = Namespace THEN ContentsOf(trip.Group) \cup {Absent}
  ELSE {Absent}

\* the notifications a long-poll response can carry: a skill entry with the
\* tenant, or the first skill's entry with the tenant left out
Notifs ==
  {Triple(SkillDataID, g, Namespace) : g \in Groups}
    \cup {Triple(SkillDataID, "skill_a", "")}

\* the skill names given on the command line (a name may be repeated)
SkillNameLists == {<<"a">>, <<"a", "b">>, <<"a", "a">>}

GroupOf(skillName) == "skill_" \o skillName

\* strings.TrimPrefix(grp, "skill_") guarded by strings.HasPrefix
SkillNameOf(grp) ==
  CASE grp = "skill_a" -> "a"
    [] grp = "skill_b" -> "b"
    [] OTHER -> ""

SkillNames == {"a", "b"}

CalculateMD5EmptyIsAbsent(content) ==
  CASE content = ""   -> ""
    [] content = "v1" -> "6654c734ccab8f440ff0825eb443dc7f"
    [] content = "v2" -> "1b267619c4812cc46ee281747884ca50"

(***************************************************************************)
(* Pure functions of the listener                                          *)
(***************************************************************************)
\* md5 of the content, hex encoded (values of md5sum for the contents above)
CalculateMD5(content) ==
  CASE content = ""   -> "d41d8cd98f00b204e9800998ecf8427e"
    [] content = "v1" -> "6654c734ccab8f440ff0825eb443dc7f"
    [] content = "v2" -> "1b267619c4812cc46ee281747884ca50"

\* fmt.Sprintf("%s_%s_%s", dataID, group, tenant)
Key(d, g, t) == d \o "_" \o g \o "_" \o t

ItemKey(item) == Key(item.DataID, item.Group, item.Tenant)

\* currentItems[key] = &items[i], a later entry with the same key wins
BuildCurrentItems(its) ==
  [k \in {ItemKey(its[i]) : i \in 1..Len(its)} |->
     CHOOSE i \in 1..Len(its) :
       /\ ItemKey(its[i]) = k
       /\ \A j \in 1..Len(its) : ItemKey(its[j]) = k => j <= i]

\* one entry of the Listening-Configs payload: the fields between the 0x02
\* separators, the tenant only when it is not empty
ListeningEntry(item) ==
  IF item.Tenant # ""
    THEN <<item.DataID, item.Group, item.MD5, item.Tenant>>
    ELSE <<item.DataID, item.Group, item.MD5>>

buildListeningConfigs(its) == [i \in 1..Len(its) |-> ListeningEntry(its[i])]

(***************************************************************************)
(* State                                                                   *)
(***************************************************************************)
VARIABLES
  items,            \* the []ConfigItem slice handed to StartListening
  currentItems,     \* map key -> pointer into items (index of the entry)
  remote,           \* the remote store: entry -> content or Absent
  mirror,           \* the local mirror: skill name -> materialized content
  pc,               \* position of the StartListening loop
  listeningConfigs, \* payload of the long-poll request in flight
  batch,            \* notifications of the response not yet processed
  cur,              \* locals of the iteration whose handler is running
  stopClosed,       \* stopCh has been closed
  ctxDone,          \* the context of the session has been cancelled
  ret,              \* what StartListening returned
  stable,           \* the environment has stopped changing and failing
  ev,               \* history: the last resolution or dispatch of the loop
  gs,               \* one run of the handler, followed through GetSkill
  sd,               \* one run of the seeding of StartSyncMultiple
  cd,               \* one use of the payload encoder and decoder
  cl,               \* the connection settings and the client built on them
  fc                \* one watched entry, from its seeding through its fetches

vars == <<items, currentItems, remote, mirror, pc, listeningConfigs, batch,
          cur, stopClosed, ctxDone, ret, stable, ev, gs, sd, cd, cl, fc>>

\* the variables of the listener
listenerVars == <<items, currentItems, remote, mirror, pc, listeningConfigs,
                  batch, cur, stopClosed, ctxDone, ret, stable, ev>>

\* no seeding, no encoding and no client is followed
NoSd == [pc |-> "idle"]

NoCd == [pc |-> "idle"]

NoCl == [pc |-> "idle"]

\* no single entry is followed
NoFc == [pc |-> "idle"]

\* no handler run is followed
NoGs == [pc |-> "idle", attempt |-> 0, idx |-> 0, written |-> {},
         skipped |-> FALSE, err |-> "", result |-> ""]

NoNotif == Triple("", "", "")

NoCur == [changed |-> NoNotif, key |-> "", newMD5 |-> "", deleted |-> FALSE,
          fresh |-> FALSE]

NoEv == [op |-> "none", changed |-> NoNotif, normalizedTenant |-> "",
         key |-> "", watched |-> FALSE, fetchTenant |-> "", fetch |-> "",
         newMD5 |-> "", pre |-> "", post |-> "", verdict |-> "",
         hres |-> "", htenant |-> "", others |-> TRUE, settled |-> FALSE,
         redelivered |-> FALSE, poll |-> ""]

(***************************************************************************)
(* Collaborators: single-entry fetch and the orchestrator's handler        *)
(***************************************************************************)
\* ConfigListener.getConfig: a transport error or a non-200 status is an
\* error, otherwise the content with the Content-MD5 header or, when the
\* header is missing, the md5 computed locally.
getConfig(rem, trip, faulty) ==
  (IF faulty THEN {[err |-> "other", content |-> "", md5 |-> ""]} ELSE {})
  \cup
  (IF rem[trip] = Absent
     THEN {[err |-> "notfound", content |-> "", md5 |-> ""]}
     ELSE {[err |-> "nil", content |-> rem[trip],
            md5 |-> CalculateMD5(rem[trip])]})

\* the handler closure of StartSyncMultiple: it re-fetches the entry in the
\* client's namespace (the tenant argument is not used), removes the mirror
\* when the entry is gone and re-materializes it otherwise.  With a nil error
\* and empty content it evaluates err.Error() on a nil error.
HandlerOutcomes(rem, mir, dataID, grp, tenant, faulty) ==
  LET skillName == SkillNameOf(grp)
      v == rem[Triple(dataID, grp, Namespace)]
  IN IF skillName = "" THEN {[ret |-> "nil", mirror |-> mir]}
     ELSE (IF faulty THEN {[ret |-> "error", mirror |-> mir]} ELSE {})
          \cup
          (IF v = Absent
             THEN {[ret |-> "nil",
                    mirror |-> [mir EXCEPT ![skillName] = Absent]]}
             ELSE IF v = ""
               THEN {[ret |-> "panic", mirror |-> mir]}
               ELSE {[ret |-> "nil",
                      mirror |-> [mir EXCEPT ![skillName] = v]]})

(***************************************************************************)
(* Decisions of the loop body                                              *)
(***************************************************************************)
\* lines 122-131: an empty tenant is replaced by the tenant of some watched
\* item with the same data-id and group (Go iterates the map in any order)
AdoptedTenants(its, cis, changed) ==
  IF changed.Tenant # "" THEN {changed.Tenant}
  ELSE LET matching == {i \in {cis[k] : k \in DOMAIN cis} :
                          /\ its[i].DataID = changed.DataID
                          /\ its[i].Group = changed.Group}
       IN IF matching = {} THEN {""}
          ELSE {its[i].Tenant : i \in matching}

\* line 135: the tenant handed to getConfig
FetchTenant(changed, normalizedTenant) == changed.Tenant

\* lines 147, 171: the tenant handed to the handler
HandlerTenant(changed, normalizedTenant) == changed.Tenant

AlreadyDeletedNever(md5) == FALSE

\* line 141: a deletion already processed is skipped
AlreadyDeleted(md5) == md5 = ""

MD5UnchangedNever(md5, newMD5) == FALSE

\* line 164: the fetched fingerprint equals the stored one
MD5Unchanged(md5, newMD5) == md5 = newMD5

\* lines 147-151: the fingerprint after the handler returned on a deletion
MD5AfterDeleted(old, hres) == ""

MD5AfterUpdatedKeeps(old, newMD5, hres) == old

\* lines 171-179: the fingerprint after the handler returned on an update
MD5AfterUpdated(old, newMD5, hres) == IF hres = "nil" THEN newMD5 ELSE old

PollErrorExitNoBackoff(cancelled) ==
  IF cancelled THEN [pc |-> "stopped", ret |-> "nil"]
  ELSE [pc |-> "select", ret |-> "none"]

PollErrorExitFatal(cancelled) ==
  [pc |-> "stopped", ret |-> IF cancelled THEN "nil" ELSE "error"]

\* lines 107-116: what a failed long-poll leads to
PollErrorExit(cancelled) ==
  IF cancelled THEN [pc |-> "stopped", ret |-> "nil"]
  ELSE [pc |-> "sleep", ret |-> "none"]

CtxDoneNeverSelected(done) == FALSE

\* lines 98-101: the select takes case <-ctx.Done() when the context is
\* cancelled and the default branch otherwise
CtxDoneSelected(done) == done

AfterPollBacksOff(changedItems) ==
  IF Len(changedItems) > 0 THEN "iter" ELSE "sleep"

\* line 119: if len(changedItems) > 0 the batch is processed, otherwise the
\* loop goes round
AfterPoll(changedItems) ==
  IF Len(changedItems) > 0 THEN "iter" ELSE "select"

NextChangedLast(b) == b[Len(b)]

\* line 120: for _, changed := range changedItems takes the notifications
\* from the front
NextChanged(b) == Head(b)

\* the for-range over changedItems ends when no notification is left
NextPc(b) == IF b = <<>> THEN "select" ELSE "iter"

StoreMD5All(its, i, md5) ==
  [j \in 1..Len(its) |-> [its[j] EXCEPT !.MD5 = md5]]

\* lines 151 and 178: item.MD5 = ... through the pointer of the map
StoreMD5(its, i, md5) == [its EXCEPT ![i].MD5 = md5]

(***************************************************************************)
(* Environment: the long-poll server                                       *)
(***************************************************************************)
EntryTenant(e) == IF Len(e) >= 4 THEN e[4] ELSE ""

ServerMD5(v) == IF v = Absent THEN "" ELSE CalculateMD5(v)

\* a well-behaved server reports exactly the advertised entries whose
\* fingerprint differs from the one of the remote entry
ServerChanged(lc, rem) ==
  LET Differs(e) ==
        e[3] # ServerMD5(rem[Triple(e[1], e[2], EntryTenant(e))])
      sel == SelectSeq(lc, Differs)
  IN [i \in 1..Len(sel) |-> Triple(sel[i][1], sel[i][2], EntryTenant(sel[i]))]

\* how often one response may name a notification: the server answers per
\* advertised entry, so once per entry of the list that has its group (an
\* entry advertised twice is reported twice), and once for any other
Mult(its, n) ==
  LET c == Cardinality({i \in 1..Len(its) : its[i].Group = n.Group})
  IN IF c = 0 THEN 1 ELSE c

\* any other server may report any entry, watched or not, in any order
Batches(its) ==
  {b \in UNION {[1..n -> Notifs] : n \in 1..MaxBatch} :
     \A n \in Notifs : Cardinality({i \in 1..Len(b) : b[i] = n}) <= Mult(its, n)}

\* one line of a response body, as the fields between the 0x02 separators:
\* the parser looks for the tenant in the fourth field
ResponseLine(n) ==
  IF n.Tenant = "" THEN <<n.DataID, n.Group>>
  ELSE <<n.DataID, n.Group, "", n.Tenant>>

\* a response body: its lines, and whether its percent-encoding is broken
ResponseBody(b, bad) ==
  [badEscape |-> bad, lines |-> [i \in 1..Len(b) |-> ResponseLine(b[i])]]

\* url.QueryUnescape: an invalid escape is an error
QueryUnescape(response) ==
  IF response.badEscape THEN [err |-> "invalid URL escape", lines |-> <<>>]
  ELSE [err |-> "nil", lines |-> response.lines]

parseChangedConfigsLenient(response) ==
  [i \in 1..Len(response.lines) |->
     Triple(response.lines[i][1], response.lines[i][2],
            IF Len(response.lines[i]) >= 4 THEN response.lines[i][4] ELSE "")]

\* lines 290-321: nil when the body cannot be decoded, otherwise one item
\* per line with at least two fields, the tenant from the fourth field
parseChangedConfigs(response) ==
  LET d == QueryUnescape(response)
      HasTwo(l) == Len(l) >= 2
      sel == SelectSeq(d.lines, HasTwo)
  IN IF d.err # "nil" THEN <<>>
     ELSE [i \in 1..Len(sel) |->
             Triple(sel[i][1], sel[i][2],
                    IF Len(sel[i]) >= 4 THEN sel[i][4] ELSE "")]

(***************************************************************************)
(* Init: the state in which StartSyncMultiple calls StartListening         *)
(***************************************************************************)
\* lines 51-107 of skill_syncer.go: one item per skill name, empty
\* fingerprint for an entry that does not exist, md5 of the content otherwise
SeedItems(names, rem) ==
  [i \in 1..Len(names) |->
     LET v == rem[Triple(SkillDataID, GroupOf(names[i]), Namespace)]
     IN [DataID |-> SkillDataID, Group |-> GroupOf(names[i]),
         Tenant |-> Namespace,
         MD5 |-> IF v = Absent THEN "" ELSE CalculateMD5(v)]]

\* the mirror after seeding: materialized for an existing entry, removed for
\* a missing one
SeedMirror(names, rem) ==
  [n \in SkillNames |->
     IF \E i \in 1..Len(names) : names[i] = n
       THEN rem[Triple(SkillDataID, GroupOf(n), Namespace)]
       ELSE Absent]

InitRemotes ==
  {r \in [Triples -> {Absent, "v1"}] :
     \A t \in Triples : t.Tenant # Namespace => r[t] = Absent}

\* the listener when StartListening is entered for these names
InitListener(names, r) ==
  /\ remote = r
  /\ items = SeedItems(names, r)
  /\ currentItems = BuildCurrentItems(SeedItems(names, r))
  /\ mirror = SeedMirror(names, r)
  /\ pc = "select"
  /\ listeningConfigs = <<>>
  /\ batch = <<>>
  /\ cur = NoCur
  /\ stopClosed = FALSE
  /\ ctxDone = FALSE
  /\ ret = "none"
  /\ stable = FALSE
  /\ ev = NoEv

Init ==
  \E names \in SkillNameLists, r \in InitRemotes :
    /\ InitListener(names, r)
    /\ gs = NoGs
    /\ sd = NoSd /\ cd = NoCd /\ cl = NoCl /\ fc = NoFc

\* what the history keeps across cycles: the notification resolved last, as
\* long as it is settled
Remembered(e) ==
  IF e.settled
    THEN [NoEv EXCEPT !.changed = e.changed, !.fetchTenant = e.fetchTenant,
                      !.settled = TRUE]
    ELSE NoEv

(***************************************************************************)
(* The loop of StartListening                                              *)
(***************************************************************************)
\* lines 98-100: case <-ctx.Done(): return nil
SelectDone ==
  /\ pc = "select"
  /\ CtxDoneSelected(ctxDone)
  /\ pc' = "stopped"
  /\ ret' = "nil"
  /\ UNCHANGED <<gs, sd, cd, cl, fc, items, currentItems, remote, mirror, listeningConfigs,
                 batch, cur, stopClosed, ctxDone, stable, ev>>

\* lines 101-106: default: build the payload and issue the long-poll
StartPoll ==
  /\ pc = "select"
  /\ ~CtxDoneSelected(ctxDone)
  /\ listeningConfigs' = buildListeningConfigs(items)
  /\ pc' = "longPoll"
  /\ ev' = Remembered(ev)
  /\ UNCHANGED <<gs, sd, cd, cl, fc, items, currentItems, remote, mirror, batch, cur,
                 stopClosed, ctxDone, ret, stable>>

\* lines 107-116: the long-poll failed (transport error, bad status, or the
\* request was abandoned because the context was cancelled)
LongPollFails ==
  /\ pc = "longPoll"
  /\ ~stable \/ ctxDone
  /\ pc' = PollErrorExit(ctxDone).pc
  /\ ret' = PollErrorExit(ctxDone).ret
  /\ listeningConfigs' = <<>>
  /\ ev' = [ev EXCEPT !.poll = IF ctxDone THEN "cancelled" ELSE "error"]
  /\ UNCHANGED <<gs, sd, cd, cl, fc, items, currentItems, remote, mirror, batch, cur,
                 stopClosed, ctxDone, stable>>

\* lines 224-226 and 119: empty body, nothing to process
LongPollNoChange ==
  /\ pc = "longPoll"
  /\ stable => ServerChanged(listeningConfigs, remote) = <<>>
  /\ pc' = AfterPoll(<<>>)
  /\ listeningConfigs' = <<>>
  /\ ev' = [ev EXCEPT !.poll = "empty"]
  /\ UNCHANGED <<gs, sd, cd, cl, fc, items, currentItems, remote, mirror, batch, cur,
                 stopClosed, ctxDone, ret, stable>>

\* lines 228 and 292-295: the body cannot be decoded, parseChangedConfigs
\* returns nil and longPoll returns it with no error
LongPollMalformed ==
  /\ pc = "longPoll"
  /\ ~stable
  /\ \E b \in Batches(items) :
       LET changedItems == parseChangedConfigs(ResponseBody(b, TRUE))
       IN /\ batch' = changedItems
          /\ pc' = AfterPoll(changedItems)
  /\ listeningConfigs' = <<>>
  /\ ev' = [ev EXCEPT !.poll = "malformed"]
  /\ UNCHANGED <<gs, sd, cd, cl, fc, items, currentItems, remote, mirror, cur, stopClosed,
                 ctxDone, ret, stable>>

\* lines 228 and 119-120: the response lists notifications
LongPollChanged ==
  /\ pc = "longPoll"
  /\ \E b \in (IF stable THEN {ServerChanged(listeningConfigs, remote)}
               ELSE Batches(items)) :
       LET changedItems == parseChangedConfigs(ResponseBody(b, FALSE))
       IN /\ b # <<>>
          /\ batch' = changedItems
          /\ pc' = AfterPoll(changedItems)
  /\ listeningConfigs' = <<>>
  /\ UNCHANGED <<gs, sd, cd, cl, fc, items, currentItems, remote, mirror, cur, stopClosed,
                 ctxDone, ret, stable, ev>>

\* line 114: time.Sleep(5 * time.Second) is over
SleepDone ==
  /\ pc = "sleep"
  /\ pc' = "select"
  /\ UNCHANGED <<gs, sd, cd, cl, fc, items, currentItems, remote, mirror, listeningConfigs,
                 batch, cur, stopClosed, ctxDone, ret, stable, ev>>

VerdictFailedIsUpdated(err, watched, md5, newMD5) ==
  CASE err = "notfound" ->
         IF ~watched THEN "Untracked"
         ELSE IF AlreadyDeleted(md5) THEN "Unchanged" ELSE "Deleted"
    [] OTHER ->
         IF watched /\ MD5Unchanged(md5, newMD5) THEN "Unchanged"
         ELSE "Updated"

\* the verdict of lines 136-168 for one notification
Verdict(err, watched, md5, newMD5) ==
  CASE err = "other" -> "FetchFailed"
    [] err = "notfound" ->
         IF ~watched THEN "Untracked"
         ELSE IF AlreadyDeleted(md5) THEN "Unchanged" ELSE "Deleted"
    [] OTHER ->
         IF watched /\ MD5Unchanged(md5, newMD5) THEN "Unchanged"
         ELSE "Updated"

\* lines 120-171: one notification is normalized, fetched and resolved; on
\* a Deleted or Updated verdict the handler is called
Resolve ==
  /\ pc = "iter"
  /\ batch # <<>>
  /\ LET changed == NextChanged(batch)
         rest == Tail(batch)
     IN \E nt \in AdoptedTenants(items, currentItems, changed) :
        \E r \in getConfig(remote,
                           Triple(changed.DataID, changed.Group,
                                  FetchTenant(changed, nt)), ~stable) :
          LET key == Key(changed.DataID, changed.Group, nt)
              watched == key \in DOMAIN currentItems
              md5 == IF watched THEN items[currentItems[key]].MD5 ELSE ""
              verdict == Verdict(r.err, watched, md5, r.md5)
              calls == verdict \in {"Deleted", "Updated"}
          IN /\ batch' = rest
             /\ pc' = IF calls THEN "handler" ELSE NextPc(rest)
             /\ cur' = IF calls
                         THEN [changed |-> changed, key |-> key,
                               newMD5 |-> r.md5,
                               deleted |-> (verdict = "Deleted"),
                               fresh |-> TRUE]
                         ELSE NoCur
             /\ ev' = [op |-> "resolve", changed |-> changed,
                       normalizedTenant |-> nt, key |-> key,
                       watched |-> watched,
                       fetchTenant |-> FetchTenant(changed, nt),
                       fetch |-> r.err, newMD5 |-> r.md5,
                       pre |-> md5, post |-> md5, verdict |-> verdict,
                       hres |-> "",
                       htenant |-> IF calls THEN HandlerTenant(changed, nt)
                                   ELSE "",
                       others |-> TRUE,
                       settled |-> (verdict = "Unchanged"),
                       redelivered |-> (ev.settled /\ ev.changed = changed),
                       poll |-> ""]
  /\ UNCHANGED <<gs, sd, cd, cl, fc, items, currentItems, remote, mirror, listeningConfigs,
                 stopClosed, ctxDone, ret, stable>>

\* lines 147-156 and 171-179: the handler returns and the fingerprint of
\* the key is written
HandlerReturn ==
  /\ pc = "handler"
  /\ \E o \in HandlerOutcomes(remote, mirror, cur.changed.DataID,
                              cur.changed.Group, ev.htenant, ~stable) :
       LET watched == cur.key \in DOMAIN currentItems
           i == currentItems[cur.key]
           new == IF cur.deleted
                    THEN MD5AfterDeleted(items[i].MD5, o.ret)
                    ELSE MD5AfterUpdated(items[i].MD5, cur.newMD5, o.ret)
       IN /\ mirror' = o.mirror
          /\ IF o.ret = "panic"
               THEN /\ pc' = "crashed"
                    /\ items' = items
                    /\ ev' = [ev EXCEPT !.op = "dispatch", !.hres = "panic",
                                        !.settled = FALSE]
               ELSE /\ pc' = NextPc(batch)
                    /\ items' = IF watched THEN StoreMD5(items, i, new)
                                ELSE items
                    /\ ev' = [ev EXCEPT
                                !.op = "dispatch",
                                !.hres = o.ret,
                                !.post = IF watched THEN new ELSE "",
                                !.others =
                                   \A j \in 1..Len(items) :
                                     (watched /\ j = i) \/ items'[j] = items[j],
                                !.settled = (watched /\ o.ret = "nil"
                                             /\ cur.fresh)]
  /\ cur' = NoCur
  /\ UNCHANGED <<gs, sd, cd, cl, fc, currentItems, remote, listeningConfigs, batch, stopClosed,
                 ctxDone, ret, stable>>

(***************************************************************************)
(* The relay goroutine and the environment                                 *)
(***************************************************************************)
Running == pc \notin {"stopped", "crashed"}

RelayCancelLost ==
  /\ stopClosed
  /\ ~ctxDone
  /\ ctxDone' = FALSE
  /\ UNCHANGED <<gs, sd, cd, cl, fc, items, currentItems, remote, mirror, pc, listeningConfigs,
                 batch, cur, stopClosed, ret, stable, ev>>

\* lines 92-95: go func() { <-stopCh; cancel() }()
RelayCancel ==
  /\ stopClosed
  /\ ~ctxDone
  /\ ctxDone' = TRUE
  /\ UNCHANGED <<gs, sd, cd, cl, fc, items, currentItems, remote, mirror, pc, listeningConfigs,
                 batch, cur, stopClosed, ret, stable, ev>>

\* the caller closes stopCh (SIGINT or SIGTERM in skill-sync)
CloseStop ==
  /\ Running
  /\ ~stopClosed
  /\ stopClosed' = TRUE
  /\ UNCHANGED <<gs, sd, cd, cl, fc, items, currentItems, remote, mirror, pc, listeningConfigs,
                 batch, cur, ctxDone, ret, stable, ev>>

FetchedBy(changed, tenant) == Triple(changed.DataID, changed.Group, tenant)

\* the entries the loop reads next: any entry while it is blocked in the
\* long-poll, the entry of the next fetch between two notifications, the
\* entry the handler re-fetches (and the one just fetched) while the
\* handler runs.  A change at any other moment is not seen before one of
\* these moments and is represented by the same change made then.
Observable ==
  CASE pc = "longPoll" -> Triples
    [] pc = "iter" ->
         {FetchedBy(NextChanged(batch), FetchTenant(NextChanged(batch), t)) :
            t \in Tenants}
    [] pc = "handler" ->
         {FetchedBy(cur.changed, Namespace),
          FetchedBy(cur.changed, ev.fetchTenant)}
    [] OTHER -> {}

\* somebody publishes, changes or deletes an entry of the remote store
RemoteChange ==
  /\ ~stable
  /\ \E trip \in Observable : \E v \in ValuesOf(trip) :
       /\ v # remote[trip]
       /\ remote' = [remote EXCEPT ![trip] = v]
       /\ ev' = IF FetchedBy(ev.changed, ev.fetchTenant) = trip
                  THEN [ev EXCEPT !.settled = FALSE] ELSE ev
       /\ cur' = IF cur # NoCur /\ FetchedBy(cur.changed, ev.fetchTenant) = trip
                   THEN [cur EXCEPT !.fresh = FALSE] ELSE cur
  /\ UNCHANGED <<gs, sd, cd, cl, fc, items, currentItems, mirror, pc, listeningConfigs, batch,
                 stopClosed, ctxDone, ret, stable>>

\* from now on the remote store does not change, nothing fails and the
\* server reports exactly the entries whose fingerprint differs
Stabilize ==
  /\ Running
  /\ ~stable
  /\ stable' = TRUE
  /\ UNCHANGED <<gs, sd, cd, cl, fc, items, currentItems, remote, mirror, pc, listeningConfigs,
                 batch, cur, stopClosed, ctxDone, ret, ev>>

LoopStep ==
  \/ SelectDone
  \/ StartPoll
  \/ LongPollFails
  \/ LongPollNoChange
  \/ LongPollMalformed
  \/ LongPollChanged
  \/ SleepDone
  \/ Resolve
  \/ HandlerReturn

Next ==
  \/ LoopStep
  \/ RelayCancel
  \/ CloseStop
  \/ RemoteChange

Spec == Init /\ [][Next]_vars

TypeOK ==
  /\ pc \in {"select", "longPoll", "sleep", "iter", "handler", "stopped",
             "crashed"}
  /\ \A i \in 1..Len(items) :
       items[i].MD5 \in {""} \cup {CalculateMD5(c) : c \in Contents}
  /\ \A k \in DOMAIN currentItems : currentItems[k] \in 1..Len(items)
  /\ stopClosed \in BOOLEAN /\ ctxDone \in BOOLEAN /\ stable \in BOOLEAN
  /\ ret \in {"none", "nil", "error"}

(***************************************************************************)
(* The session with an environment that eventually settles                 *)
(***************************************************************************)
NextLive ==
  \/ Next
  \/ Stabilize

\* a session that watches one record
InitLive == Init /\ Len(items) = 1

\* the loop goroutine and the relay goroutine are scheduled, and every
\* long-poll, fetch and handler call returns
FairSpec ==
  /\ InitLive
  /\ [][NextLive]_vars
  /\ WF_vars(LoopStep)
  /\ WF_vars(RelayCancel)

(***************************************************************************)
(* One run of the handler, followed through SkillService.GetSkill.  The    *)
(* listener sees only its result (HandlerOutcomes); here the run is taken  *)
(* step by step, every fetch, parse and write with each of its outcomes.   *)
(***************************************************************************)
\* what can happen to the re-fetch of the handler (skill_syncer.go:133)
RefetchOutcomes == {"notfound", "error", "empty", "content"}

\* what can happen to skill.json in getSkillWithValidation (lines 108-124)
SkillOutcomes == {"fetchErr", "parseErr", "mkdirErr", "ok"}

\* what can happen to one resource of the list (lines 128-194)
ResourceOutcomes ==
  {"noName", "fetchErr", "parseErr", "mismatch", "badField", "mkdirErr",
   "writeErr", "written"}

\* lines 130-194: what the loop over the resources does with an outcome
ResourceEffect(o) ==
  CASE o = "noName" -> "next"
    [] o \in {"fetchErr", "parseErr", "badField"} -> "skip"
    [] o = "mismatch" -> "mismatch"
    [] o \in {"mkdirErr", "writeErr"} -> "fail"
    [] OTHER -> "write"

RetryAnyError(err, attempt) == attempt < maxRetries

\* part_000 lines 88-96: a failed attempt is repeated only after a
\* uniformId mismatch and only while attempts are left
RetryAttempt(err, attempt) == err = "mismatch" /\ attempt < maxRetries

\* skill_syncer.go:133-147: the handler fetches the entry again
HandlerRefetch ==
  /\ gs.pc = "hfetch"
  /\ \E o \in RefetchOutcomes :
       gs' = CASE o = "notfound" ->
                    [gs EXCEPT !.pc = "done", !.result = "nil",
                               !.err = "removed"]
               [] o = "error" ->
                    [gs EXCEPT !.pc = "done", !.result = "error",
                               !.err = "refetch"]
               [] o = "empty" ->
                    [gs EXCEPT !.pc = "done", !.result = "panic"]
               [] OTHER ->
                    [gs EXCEPT !.pc = "attempt", !.attempt = 1]
  /\ UNCHANGED <<listenerVars, sd, cd, cl, fc>>

\* part_000 lines 108-124: skill.json is fetched and parsed, the directory
\* of the record is created
GsFetchSkill ==
  /\ gs.pc = "attempt"
  /\ \E o \in SkillOutcomes :
       gs' = IF o = "ok"
               THEN [gs EXCEPT !.pc = "resource", !.idx = 1,
                               !.skipped = FALSE]
               ELSE [gs EXCEPT !.pc = "failed", !.err = "other"]
  /\ UNCHANGED <<listenerVars, sd, cd, cl, fc>>

\* part_000 lines 128-194: the next resource of the list
GsResource ==
  /\ gs.pc = "resource"
  /\ gs.idx <= MaxResources
  /\ \E o \in ResourceOutcomes :
       gs' = CASE ResourceEffect(o) = "next" ->
                    [gs EXCEPT !.idx = @ + 1]
               [] ResourceEffect(o) = "skip" ->
                    [gs EXCEPT !.idx = @ + 1, !.skipped = TRUE]
               [] ResourceEffect(o) = "mismatch" ->
                    [gs EXCEPT !.pc = "failed", !.err = "mismatch"]
               [] ResourceEffect(o) = "fail" ->
                    [gs EXCEPT !.pc = "failed", !.err = "other"]
               [] OTHER ->
                    [gs EXCEPT !.idx = @ + 1,
                               !.written = @ \cup {gs.idx}]
  /\ UNCHANGED <<listenerVars, sd, cd, cl, fc>>

\* part_000 lines 197-202: SKILL.md is written and the attempt returns
GsGenerate ==
  /\ gs.pc = "resource"
  /\ gs.idx > MaxResources
  /\ \E ok \in BOOLEAN :
       gs' = IF ok
               THEN [gs EXCEPT !.pc = "done", !.result = "nil", !.err = ""]
               ELSE [gs EXCEPT !.pc = "failed", !.err = "other"]
  /\ UNCHANGED <<listenerVars, sd, cd, cl, fc>>

\* part_000 lines 82-101 and skill_syncer.go:151-153: GetSkill repeats the
\* attempt or returns the error, which the handler wraps and returns
GsRetry ==
  /\ gs.pc = "failed"
  /\ gs' = IF RetryAttempt(gs.err, gs.attempt)
             THEN [gs EXCEPT !.pc = "attempt", !.attempt = @ + 1]
             ELSE [gs EXCEPT !.pc = "done", !.result = "error"]
  /\ UNCHANGED <<listenerVars, sd, cd, cl, fc>>

HandlerNext ==
  \/ HandlerRefetch
  \/ GsFetchSkill
  \/ GsResource
  \/ GsGenerate
  \/ GsRetry

\* the handler is called for record a
HandlerInit ==
  /\ InitListener(<<"a">>, [t \in Triples |-> Absent])
  /\ gs = [NoGs EXCEPT !.pc = "hfetch"]
  /\ sd = NoSd /\ cd = NoCd /\ cl = NoCl /\ fc = NoFc

HandlerSpec == HandlerInit /\ [][HandlerNext]_vars

\* every fetch, write and sleep of the run returns, so the run goes on until
\* the handler has returned
FairHandlerSpec == HandlerSpec /\ WF_vars(HandlerNext)

(***************************************************************************)
(* The seeding of SkillSyncer.StartSyncMultiple (skill_syncer.go:41-111),  *)
(* one record name after the other, every fetch, removal and               *)
(* materialization with each of its outcomes.                              *)
(***************************************************************************)
\* the lists of names the orchestrator can be called with
SeedNameLists == UNION {[1..n -> SkillNames] : n \in 0..MaxNames}

\* the local mirror of a record before seeding: none, or a stale copy
SeedMirrors == [SkillNames -> {Absent, "stale"}]

\* what the initial handling of one record can run into: the fetch reports
\* 404, fails otherwise, returns empty content, or returns content and
\* GetSkill then fails or succeeds
SeedOutcomes ==
  {"notfound", "fetchErr", "empty", "materializeErr", "materialized"}

SeedEffectErrorWatches(o) ==
  CASE o \in {"notfound", "fetchErr"} -> "watchEmpty"
    [] o \in {"empty", "materializeErr"} -> "skip"
    [] OTHER -> "watch"

\* lines 56-106: what the loop over the names does with an outcome
SeedEffect(o) ==
  CASE o = "notfound" -> "watchEmpty"
    [] o \in {"fetchErr", "empty", "materializeErr"} -> "skip"
    [] OTHER -> "watch"

\* lines 71-76 and 101-106: the item appended for a record
SeedItem(skillName, md5) ==
  [DataID |-> SkillDataID, Group |-> GroupOf(skillName),
   Tenant |-> Namespace, MD5 |-> md5]

\* lines 42-44: if len(skillNames) == 0
SeedCheck ==
  /\ sd.pc = "check"
  /\ sd' = IF Len(sd.skillNames) = 0
             THEN [sd EXCEPT !.pc = "done", !.result = "error"]
             ELSE [sd EXCEPT !.pc = "seed"]
  /\ UNCHANGED <<listenerVars, gs, cd, cl, fc>>

\* lines 51-107: one pass of the loop over skillNames
SeedRecord ==
  /\ sd.pc = "seed"
  /\ sd.idx <= Len(sd.skillNames)
  /\ LET skillName == sd.skillNames[sd.idx]
     IN \E o \in SeedOutcomes, rmOk \in BOOLEAN, partial \in BOOLEAN :
          LET eff == SeedEffect(o)
              m == sd.mirror[skillName]
              m2 == CASE eff = "watchEmpty" ->
                           IF m # Absent /\ rmOk THEN Absent ELSE m
                      [] eff = "watch" -> "v1"
                      [] o = "materializeErr" /\ partial -> "partial"
                      [] OTHER -> m
              its == CASE eff = "watchEmpty" ->
                            Append(sd.items, SeedItem(skillName, ""))
                       [] eff = "watch" ->
                            Append(sd.items,
                                   SeedItem(skillName, CalculateMD5("v1")))
                       [] OTHER -> sd.items
          IN sd' = [sd EXCEPT
                      !.idx = @ + 1,
                      !.mirror = [@ EXCEPT ![skillName] = m2],
                      !.items = its,
                      !.existingCount = IF eff = "watch" THEN @ + 1 ELSE @,
                      !.fetched = Append(@, o),
                      !.rmFailed = @ \/ (eff = "watchEmpty" /\ m # Absent
                                          /\ ~rmOk)]
  /\ UNCHANGED <<listenerVars, gs, cd, cl, fc>>

\* lines 109-169: no item is an error, otherwise StartListening is called
SeedFinish ==
  /\ sd.pc = "seed"
  /\ sd.idx > Len(sd.skillNames)
  /\ sd' = IF Len(sd.items) = 0
             THEN [sd EXCEPT !.pc = "done", !.result = "error"]
             ELSE [sd EXCEPT !.pc = "done", !.result = "listening"]
  /\ UNCHANGED <<listenerVars, gs, cd, cl, fc>>

SeedNext ==
  \/ SeedCheck
  \/ SeedRecord
  \/ SeedFinish

SeedInit ==
  /\ InitListener(<<"a">>, [t \in Triples |-> Absent])
  /\ gs = NoGs /\ cd = NoCd /\ cl = NoCl /\ fc = NoFc
  /\ \E names \in SeedNameLists, mir \in SeedMirrors :
       sd = [pc |-> "check", skillNames |-> names, idx |-> 1,
             items |-> <<>>, mirror |-> mir, existingCount |-> 0,
             fetched |-> <<>>, rmFailed |-> FALSE, result |-> ""]

SeedSpec == SeedInit /\ [][SeedNext]_vars

\* the names of the records the seeding keeps, in the order given
SeedKept(names, fetched) ==
  LET idxs == {i \in 1..Len(fetched) :
                 fetched[i] \in {"notfound", "materialized"}}
      Nth[k \in 0..Len(fetched)] ==
        IF k = 0 THEN <<>>
        ELSE IF k \in idxs THEN Append(Nth[k - 1], names[k])
        ELSE Nth[k - 1]
  IN Nth[Len(fetched)]

(***************************************************************************)
(* The payload codec at the level of bytes: buildListeningConfigs and      *)
(* parseChangedConfigs (config_listener.go:271-321) with the library calls *)
(* they make.  A text is a sequence of bytes, a byte is a one-character    *)
(* string, and the two control bytes are written SOH and STX.              *)
(***************************************************************************)
\* "\x01", the byte that ends an entry
EntrySep == "SOH"

\* "\x02", the byte between the fields of an entry
FieldSep == "STX"

RECURSIVE Flatten(_)
\* strings.Join(parts, ""): the parts one after the other
Flatten(parts) ==
  IF parts = <<>> THEN <<>> ELSE Head(parts) \o Flatten(Tail(parts))

RECURSIVE Join(_, _)
\* strings.Join(parts, sep)
Join(parts, sep) ==
  IF parts = <<>> THEN <<>>
  ELSE IF Len(parts) = 1 THEN Head(parts)
  ELSE Head(parts) \o <<sep>> \o Join(Tail(parts), sep)

RECURSIVE SplitFrom(_, _, _, _, _)
SplitFrom(s, sep, i, done, field) ==
  IF i > Len(s) THEN Append(done, field)
  ELSE IF s[i] = sep THEN SplitFrom(s, sep, i + 1, Append(done, field), <<>>)
  ELSE SplitFrom(s, sep, i + 1, done, Append(field, s[i]))

\* strings.Split(s, sep): the texts between the separators, one more than
\* there are separators
Split(s, sep) == SplitFrom(s, sep, 1, <<>>, <<>>)

EscapeByteKeepsPlus(b) ==
  CASE b = " " -> <<"+">>
    [] b = "%" -> <<"%", "2", "5">>
    [] b = EntrySep -> <<"%", "0", "1">>
    [] b = FieldSep -> <<"%", "0", "2">>
    [] OTHER -> <<b>>

\* url.QueryEscape on one byte: a space becomes "+", letters and digits stay,
\* every other byte becomes "%" and its two hex digits
EscapeByte(b) ==
  CASE b = " " -> <<"+">>
    [] b = "+" -> <<"%", "2", "B">>
    [] b = "%" -> <<"%", "2", "5">>
    [] b = EntrySep -> <<"%", "0", "1">>
    [] b = FieldSep -> <<"%", "0", "2">>
    [] OTHER -> <<b>>

\* url.QueryEscape
urlQueryEscape(s) == Flatten([i \in 1..Len(s) |-> EscapeByte(s[i])])

\* the bytes that are hex digits
HexDigits ==
  {"0", "1", "2", "3", "4", "5", "6", "7", "8", "9",
   "a", "b", "c", "d", "e", "f", "A", "B", "C", "D", "E", "F"}

\* the byte two hex digits stand for
HexByte(h, l) ==
  CASE <<h, l>> = <<"0", "1">> -> EntrySep
    [] <<h, l>> = <<"0", "2">> -> FieldSep
    [] <<h, l>> = <<"2", "0">> -> " "
    [] <<h, l>> = <<"2", "5">> -> "%"
    [] <<h, l>> \in {<<"2", "B">>, <<"2", "b">>} -> "+"
    [] OTHER -> "0x" \o h \o l

RECURSIVE UnescapeFrom(_, _, _)
UnescapeFrom(s, i, acc) ==
  IF i > Len(s) THEN [err |-> FALSE, bytes |-> acc]
  ELSE IF s[i] = "%"
  THEN IF i + 2 <= Len(s) /\ s[i + 1] \in HexDigits /\ s[i + 2] \in HexDigits
       THEN UnescapeFrom(s, i + 3, Append(acc, HexByte(s[i + 1], s[i + 2])))
       ELSE [err |-> TRUE, bytes |-> <<>>]
  ELSE IF s[i] = "+" THEN UnescapeFrom(s, i + 1, Append(acc, " "))
  ELSE UnescapeFrom(s, i + 1, Append(acc, s[i]))

\* url.QueryUnescape: "+" is a space, "%" and two hex digits are a byte, a
\* "%" followed by anything else is an error
urlQueryUnescape(s) == UnescapeFrom(s, 1, <<>>)

EntryFieldsAlwaysTenant(item) ==
  <<item.DataID, item.Group, item.MD5, item.Tenant>>

\* lines 275-281: the fields written for one item
EntryFields(item) ==
  IF item.Tenant # <<>>
  THEN <<item.DataID, item.Group, item.MD5, item.Tenant>>
  ELSE <<item.DataID, item.Group, item.MD5>>

\* lines 271-287, on bytes
buildListeningConfigsBytes(its) ==
  urlQueryEscape(
    Flatten([i \in 1..Len(its) |->
               Join(EntryFields(its[i]), FieldSep) \o <<EntrySep>>]))

TenantFieldThird(fields) ==
  IF Len(fields) >= 3 THEN fields[3] ELSE <<>>

\* lines 313-315: if len(fields) >= 4 { item.Tenant = fields[3] }
TenantField(fields) ==
  IF Len(fields) >= 4 THEN fields[4] ELSE <<>>

RECURSIVE ParseLines(_, _, _)
\* lines 299-318: the loop over the lines
ParseLines(lines, i, acc) ==
  IF i > Len(lines) THEN acc
  ELSE IF lines[i] = <<>> THEN ParseLines(lines, i + 1, acc)
  ELSE IF Len(Split(lines[i], FieldSep)) >= 2
  THEN ParseLines(lines, i + 1,
         Append(acc, [DataID |-> Split(lines[i], FieldSep)[1],
                      Group |-> Split(lines[i], FieldSep)[2],
                      MD5 |-> <<>>,
                      Tenant |-> TenantField(Split(lines[i], FieldSep))]))
  ELSE ParseLines(lines, i + 1, acc)

\* lines 289-321, on bytes; a nil slice is the empty sequence
parseChangedConfigsBytes(response) ==
  IF urlQueryUnescape(response).err THEN <<>>
  ELSE ParseLines(Split(urlQueryUnescape(response).bytes, EntrySep), 1, <<>>)

\* field values that need escaping, and the two that hold a delimiter
SpecialFields ==
  {<<" ">>, <<"+">>, <<"%", "0", "2">>, <<"g", "%">>,
   <<FieldSep>>, <<"d", EntrySep>>}

\* the items of a watch list: every combination of empty and non-empty
\* fields, and one field at a time with a special value
CodecItems ==
  [DataID : {<<>>, <<"d">>}, Group : {<<>>, <<"g">>},
   MD5 : {<<>>, <<"5">>}, Tenant : {<<>>, <<"t">>}]
  \cup {[DataID |-> f, Group |-> <<"g">>, MD5 |-> <<"5">>, Tenant |-> <<>>] :
          f \in SpecialFields}
  \cup {[DataID |-> <<"d">>, Group |-> f, MD5 |-> <<"5">>, Tenant |-> <<>>] :
          f \in SpecialFields}
  \cup {[DataID |-> <<"d">>, Group |-> <<"g">>, MD5 |-> <<"5">>, Tenant |-> f] :
          f \in SpecialFields}

\* the lines of a response, each the fields the server wrote: from none to
\* five, empty ones and ones that need escaping among them
ResponseLines ==
  {<<<<>>>>, <<<<"d">>>>, <<<<"d">>, <<"g">>>>, <<<<>>, <<>>>>,
   <<<<"d">>, <<"g">>, <<"t">>>>, <<<<"d">>, <<"g">>, <<>>, <<"t">>>>,
   <<<<"d">>, <<"g">>, <<"5">>, <<>>>>,
   <<<<"d", " ">>, <<"+">>, <<>>, <<"%", "0", "1">>>>,
   <<<<"d">>, <<"g">>, <<>>, <<"t">>, <<"x">>>>}

\* the body of a response made of these lines: every line ended by the entry
\* delimiter or the lines only separated by it, percent-encoded, and
\* possibly cut inside an escape
ResponseBytes(lines, terminated, cut) ==
  LET texts == [i \in 1..Len(lines) |-> Join(lines[i], FieldSep)]
      raw == IF terminated
             THEN Flatten([i \in 1..Len(texts) |-> texts[i] \o <<EntrySep>>])
             ELSE Join(texts, EntrySep)
  IN IF cut THEN urlQueryEscape(raw) \o <<"%", "0">> ELSE urlQueryEscape(raw)

\* line 272: the watch list is serialized
CdBuild ==
  /\ cd.pc = "input"
  /\ cd.kind = "watch"
  /\ cd' = [cd EXCEPT !.pc = "payload",
                      !.payload = buildListeningConfigsBytes(cd.items)]
  /\ UNCHANGED <<listenerVars, gs, sd, cl, fc>>

\* the server answers the long-poll with a body
CdReceive ==
  /\ cd.pc = "input"
  /\ cd.kind = "response"
  /\ cd' = [cd EXCEPT !.pc = "payload",
                      !.payload = ResponseBytes(cd.lines, cd.terminated,
                                                cd.cut)]
  /\ UNCHANGED <<listenerVars, gs, sd, cl, fc>>

\* line 290: the payload is decoded
CdParse ==
  /\ cd.pc = "payload"
  /\ cd' = [cd EXCEPT !.pc = "done",
                      !.decoded = parseChangedConfigsBytes(cd.payload)]
  /\ UNCHANGED <<listenerVars, gs, sd, cl, fc>>

CodecNext ==
  \/ CdBuild
  \/ CdReceive
  \/ CdParse

CodecInit ==
  /\ InitListener(<<"a">>, [t \in Triples |-> Absent])
  /\ gs = NoGs /\ sd = NoSd /\ cl = NoCl /\ fc = NoFc
  /\ \/ \E its \in UNION {[1..n -> CodecItems] : n \in 0..MaxEntries} :
          cd = [pc |-> "input", kind |-> "watch", items |-> its,
                lines |-> <<>>, terminated |-> TRUE, cut |-> FALSE,
                payload |-> <<>>, decoded |-> <<>>]
     \/ \E ls \in UNION {[1..n -> ResponseLines] : n \in 0..MaxEntries},
           term \in BOOLEAN, cut \in BOOLEAN :
          cd = [pc |-> "input", kind |-> "response", items |-> <<>>,
                lines |-> ls, terminated |-> term, cut |-> cut,
                payload |-> <<>>, decoded |-> <<>>]

CodecSpec == CodecInit /\ [][CodecNext]_vars

\* no field of the items holds one of the two delimiter bytes
DelimiterFree(its) ==
  \A i \in 1..Len(its) :
    \A f \in {its[i].DataID, its[i].Group, its[i].MD5, its[i].Tenant} :
      \A k \in 1..Len(f) : f[k] \notin {EntrySep, FieldSep}

(***************************************************************************)
(* The connection settings of the command line (cmd/root.go:32-108) and    *)
(* the client built on them: NewNacosClient, login and ensureTokenValid    *)
(* (nacos_client.go:62-182).                                               *)
(***************************************************************************)
\* the server address used when none is configured
DefaultServerAddr == "127.0.0.1:" \o ToString(DefaultPort)

\* the hosts of the model for which strings.Contains(host, ":") holds
HostsWithPort == {"h3:9300", "h4:9400"}

\* what the flags can hold; "" and 0 are the values of a flag not given
FlagSettings ==
  [server : {"", "s0:9100"}, host : {"", "h1", "h3:9300"}, port : {0, 9000},
   namespace : {"", "n1"}, authType : {"", "aliyun"},
   username : {"", "u1"}, password : {"", "p1"}]

\* what config.LoadConfig can return: nothing (no --config, or the file did
\* not load), or the fields of the file, "" and 0 for the ones it leaves out
FileSettings ==
  [loaded : {TRUE}, Host : {"", "h2", "h4:9400"}, Port : {0, 7000},
   Namespace : {"", "n2"}, AuthType : {"", "aliyun"},
   Username : {"", "u2"}, Password : {"", "p2"}]
  \cup [loaded : {FALSE}, Host : {""}, Port : {0}, Namespace : {""},
        AuthType : {""}, Username : {""}, Password : {""}]

\* Config.GetServerAddr
GetServerAddr(c) ==
  IF c.Host = "" THEN ""
  ELSE IF c.Port = 0
  THEN IF c.Host \in HostsWithPort THEN c.Host
       ELSE c.Host \o ":" \o ToString(DefaultPort)
  ELSE c.Host \o ":" \o ToString(c.Port)

\* root.go lines 46-62 and 104-107: the server address
ServerAddrOf(flags, fileConfig) ==
  LET addr == IF flags.server # "" THEN flags.server
              ELSE IF flags.host # ""
              THEN IF flags.port > 0
                   THEN flags.host \o ":" \o ToString(flags.port)
                   ELSE IF flags.host \in HostsWithPort THEN flags.host
                   ELSE flags.host \o ":" \o ToString(DefaultPort)
              ELSE IF fileConfig.loaded THEN GetServerAddr(fileConfig)
              ELSE ""
  IN IF addr = "" THEN DefaultServerAddr ELSE addr

\* root.go lines 64-94: a text setting, the flag, else the file, else the
\* default
TextSetting(flag, fileConfig, fileValue, default) ==
  IF flag # "" THEN flag
  ELSE IF fileConfig.loaded /\ fileValue # "" THEN fileValue
  ELSE default

\* rootCmd.PersistentPreRun
ClPreRun ==
  /\ cl.pc = "input"
  /\ cl' = [cl EXCEPT
              !.pc = "configured",
              !.serverAddr = ServerAddrOf(cl.flags, cl.file),
              !.namespace = TextSetting(cl.flags.namespace, cl.file,
                                        cl.file.Namespace, ""),
              !.authType = TextSetting(cl.flags.authType, cl.file,
                                       cl.file.AuthType, "nacos"),
              !.username = TextSetting(cl.flags.username, cl.file,
                                       cl.file.Username, "nacos"),
              !.password = TextSetting(cl.flags.password, cl.file,
                                       cl.file.Password, "nacos")]
  /\ UNCHANGED <<listenerVars, gs, sd, cd, fc>>

\* login line 106: tryV3
TryV3(authLoginVersion) == authLoginVersion \in {"", "v3"}

\* NewNacosClient, up to the call of login
ClNewNacosClient ==
  /\ cl.pc = "configured"
  /\ cl' = [pc |-> IF cl.authType # "nacos" THEN "ready"
                   ELSE IF TryV3("") THEN "v3" ELSE "v1",
            ServerAddr |-> cl.serverAddr,
            Namespace |-> IF cl.namespace = "" THEN "public"
                          ELSE cl.namespace,
            AuthType |-> cl.authType,
            Username |-> cl.username, Password |-> cl.password,
            AccessToken |-> "", authLoginVersion |-> "",
            logins |-> 0, posted |-> <<>>, v3ok |-> FALSE, first |-> ""]
  /\ UNCHANGED <<listenerVars, gs, sd, cd, fc>>

\* login lines 107-119: the v3 login is posted and answered
ClLoginV3 ==
  /\ cl.pc = "v3"
  /\ \E ok \in BOOLEAN :
       cl' = [cl EXCEPT
                !.pc = "v1",
                !.posted = Append(@, "v3"),
                !.v3ok = ok,
                !.AccessToken = IF ok THEN "token3" ELSE @,
                !.authLoginVersion = IF ok THEN "v3" ELSE @,
                !.first = IF ok /\ @ = "" THEN "v3" ELSE @]
  /\ UNCHANGED <<listenerVars, gs, sd, cd, fc>>

\* login lines 121-132: the v1 login is posted and answered, login returns
ClLoginV1 ==
  /\ cl.pc = "v1"
  /\ \E ok \in BOOLEAN :
       cl' = [cl EXCEPT
                !.pc = "ready",
                !.posted = Append(@, "v1"),
                !.logins = @ + 1,
                !.AccessToken = IF ok THEN "token1" ELSE @,
                !.authLoginVersion = IF ok THEN "v1" ELSE @,
                !.first = IF ok /\ @ = "" THEN "v1" ELSE @]
  /\ UNCHANGED <<listenerVars, gs, sd, cd, fc>>

\* ensureTokenValid before a request: without a token, or with one about to
\* expire, the client logs in again
ClEnsureTokenValid ==
  /\ cl.pc = "ready"
  /\ cl.AuthType = "nacos"
  /\ cl.logins < MaxLogins
  /\ cl' = [cl EXCEPT
              !.pc = IF TryV3(cl.authLoginVersion) THEN "v3" ELSE "v1",
              !.posted = <<>>,
              !.v3ok = FALSE]
  /\ UNCHANGED <<listenerVars, gs, sd, cd, fc>>

ClientNext ==
  \/ ClPreRun
  \/ ClNewNacosClient
  \/ ClLoginV3
  \/ ClLoginV1
  \/ ClEnsureTokenValid

ClientInit ==
  /\ InitListener(<<"a">>, [t \in Triples |-> Absent])
  /\ gs = NoGs /\ sd = NoSd /\ cd = NoCd /\ fc = NoFc
  /\ \E flags \in FlagSettings, fileConfig \in FileSettings :
       cl = [pc |-> "input", flags |-> flags, file |-> fileConfig,
             serverAddr |-> "", namespace |-> "", authType |-> "",
             username |-> "", password |-> ""]

ClientSpec == ClientInit /\ [][ClientNext]_vars

(***************************************************************************)
(* The fingerprint of one watched entry: seeded by StartSyncMultiple       *)
(* (skill_syncer.go:55-106) from the content, then fetched by              *)
(* ConfigListener.getConfig (config_listener.go:232-268), which takes the  *)
(* Content-MD5 header of the response when there is one, compared and      *)
(* stored by the loop of StartListening.                                   *)
(***************************************************************************)
\* what a server puts into the Content-MD5 header of a response: nothing,
\* the hex form of the md5 of the body, or its base64 form (RFC 1864)
HeaderModes == {"none", "hex", "base64"}

\* the md5 of the content in base64 (values of md5sum for the contents above)
Base64MD5(content) ==
  CASE content = ""   -> "1B2M2Y8AsgTpgAmY7PhCfg=="
    [] content = "v1" -> "ZlTHNMyrj0QP8IJetEPcfw=="
    [] content = "v2" -> "GyZ2GcSBLMRu4oF0eITKUA=="

\* resp.Header.Get("Content-MD5") for a server of this mode
ContentMD5Header(mode, content) ==
  CASE mode = "none" -> ""
    [] mode = "hex" -> CalculateMD5(content)
    [] OTHER -> Base64MD5(content)

\* config_listener.go lines 261-265: the header, and the md5 of the content
\* only when the header is empty
ContentMD5(header, content) ==
  IF header = "" THEN CalculateMD5(content) ELSE header

\* skill_syncer.go lines 55-106 for one name: no watch for an entry with
\* empty content, the empty fingerprint for a missing one, calculateMD5 of
\* the content otherwise
FcSeed ==
  /\ fc.pc = "seed"
  /\ fc' = IF fc.remote = ""
             THEN [fc EXCEPT !.pc = "unwatched"]
             ELSE [fc EXCEPT !.pc = "watching",
                             !.md5 = IF fc.remote = Absent THEN ""
                                     ELSE CalculateMD5(fc.remote)]
  /\ UNCHANGED <<listenerVars, gs, sd, cd, cl>>

\* the remote entry is published again, or removed
FcRemoteChange ==
  /\ fc.pc = "watching"
  /\ \E v \in Contents \cup {Absent} :
       /\ v # fc.remote
       /\ fc' = [fc EXCEPT !.remote = v]
  /\ UNCHANGED <<listenerVars, gs, sd, cd, cl>>

\* config_listener.go line 135: getConfig for a notification of the entry
FcGetConfig ==
  /\ fc.pc = "watching"
  /\ \/ fc' = [fc EXCEPT !.pc = "fetched", !.op = "fetch", !.err = "other",
                         !.fetched = "", !.newMD5 = ""]
     \/ /\ fc.remote = Absent
        /\ fc' = [fc EXCEPT !.pc = "fetched", !.op = "fetch", !.err = "notfound",
                            !.fetched = "", !.newMD5 = ""]
     \/ /\ fc.remote # Absent
        /\ \E mode \in HeaderModes :
             fc' = [fc EXCEPT
                      !.pc = "fetched", !.op = "fetch", !.err = "nil",
                      !.fetched = fc.remote,
                      !.newMD5 = ContentMD5(ContentMD5Header(mode, fc.remote),
                                            fc.remote)]
  /\ UNCHANGED <<listenerVars, gs, sd, cd, cl>>

\* config_listener.go lines 136-168: the verdict for the notification
FcResolve ==
  /\ fc.pc = "fetched"
  /\ LET verdict == Verdict(fc.err, TRUE, fc.md5, fc.newMD5)
     IN fc' = [fc EXCEPT
                 !.pc = IF verdict \in {"Deleted", "Updated"} THEN "handler"
                        ELSE "watching",
                 !.op = "resolve",
                 !.pre = fc.md5,
                 !.verdict = verdict]
  /\ UNCHANGED <<listenerVars, gs, sd, cd, cl>>

\* config_listener.go lines 147-151 and 171-179: the handler returns and
\* the fingerprint is written
FcHandlerReturn ==
  /\ fc.pc = "handler"
  /\ \E r \in {"nil", "error"} :
       fc' = [fc EXCEPT
                !.pc = "watching",
                !.op = "dispatch",
                !.hres = r,
                !.md5 = IF fc.verdict = "Deleted"
                        THEN MD5AfterDeleted(fc.md5, r)
                        ELSE MD5AfterUpdated(fc.md5, fc.newMD5, r)]
  /\ UNCHANGED <<listenerVars, gs, sd, cd, cl>>

FetchNext ==
  \/ FcSeed
  \/ FcRemoteChange
  \/ FcGetConfig
  \/ FcResolve
  \/ FcHandlerReturn

FetchInit ==
  /\ InitListener(<<"a">>, [t \in Triples |-> Absent])
  /\ gs = NoGs /\ sd = NoSd /\ cd = NoCd /\ cl = NoCl
  /\ \E v \in Contents \cup {Absent} :
       fc = [pc |-> "seed", remote |-> v, md5 |-> "", err |-> "",
             fetched |-> "", newMD5 |-> "", op |-> "none", pre |-> "",
             verdict |-> "", hres |-> ""]

FetchSpec == FetchInit /\ [][FetchNext]_vars

\* the item the map holds for the key of the last resolution
EvItem == items[currentItems[ev.key]]

(***************************************************************************)
(* C1  When the handler returns an error for a dispatched notification     *)
(* (Updated or Deleted), the fingerprint of that key is exactly what it    *)
(* was before the dispatch.                                                *)
(***************************************************************************)
C1_HandlerErrorKeepsFingerprint ==
  (ev.op = "dispatch" /\ ev.hres = "error" /\ ev.watched)
    => EvItem.MD5 = ev.pre

(***************************************************************************)
(* C2  Deletion is reported once per transition: a not-found fetch of a    *)
(* watched key calls the handler when the stored fingerprint is not empty, *)
(* the fingerprint is empty once that call has returned, and a not-found   *)
(* fetch with an empty stored fingerprint calls no handler and leaves the  *)
(* fingerprint empty.                                                      *)
(***************************************************************************)
C2_DeletionReportedOnce ==
  /\ (ev.op = "resolve" /\ ev.watched /\ ev.fetch = "notfound")
       => IF ev.pre = ""
            THEN pc # "handler" /\ cur = NoCur /\ EvItem.MD5 = ""
            ELSE pc = "handler" /\ cur.deleted /\ cur.changed = ev.changed
  /\ (ev.op = "dispatch" /\ ev.watched /\ ev.verdict = "Deleted"
        /\ ev.hres # "panic")
       => EvItem.MD5 = ""

C2_Witness ==
  /\ ev.op = "resolve" /\ ev.watched /\ ev.fetch = "notfound"
  /\ ev.pre = "" /\ pc # "handler"
  /\ mirror[SkillNameOf(ev.changed.Group)] = Absent

C4_FingerprintAfterSuccess ==
  /\ (ev.op = "dispatch" /\ ev.hres = "nil" /\ ev.watched)
       => EvItem.MD5 = (IF ev.verdict = "Updated" THEN ev.newMD5 ELSE "")
  /\ (ev.op = "resolve" /\ ev.watched /\ ev.pre = "" /\ ev.fetch = "nil")
       => /\ pc = "handler"
          /\ ~cur.deleted
          /\ cur.newMD5 = ev.newMD5
          /\ ev.newMD5 # ""

C4_Witness ==
  /\ ev.op = "dispatch" /\ ev.hres = "nil" /\ ev.watched
  /\ ev.verdict = "Updated" /\ ev.pre = ""
  /\ EvItem.MD5 = ev.newMD5 /\ ev.newMD5 # ""

(***************************************************************************)
(* C5  At the start of every long-poll call the fingerprint serialized     *)
(* into the request for a watched key is the fingerprint the Watch Set     *)
(* stores for that key.                                                    *)
(***************************************************************************)
C5_AdvertisedIsStored ==
  pc = "longPoll" =>
    \A n \in 1..Len(listeningConfigs) :
      LET e == listeningConfigs[n]
          k == Key(e[1], e[2], EntryTenant(e))
      IN k \in DOMAIN currentItems /\ e[3] = items[currentItems[k]].MD5

(***************************************************************************)
(* C7  A notification with an empty tenant adopts the tenant of the        *)
(* watched entry with the same data-id and group, and the adopted tenant   *)
(* is used for the lookup, for the fetch and for the handler.              *)
(***************************************************************************)
C7_AdoptedTenantUsed ==
  (ev.op = "resolve" /\ ev.changed.Tenant = "" /\ ev.normalizedTenant # "")
    => /\ ev.key = Key(ev.changed.DataID, ev.changed.Group,
                       ev.normalizedTenant)
       /\ ev.fetchTenant = ev.normalizedTenant
       /\ (pc = "handler" => ev.htenant = ev.normalizedTenant)

(***************************************************************************)
(* C8  A notification for a key that is not in the Watch Set is a no-op    *)
(* whatever its fetch returns: no handler call, no fingerprint changes.    *)
(***************************************************************************)
C8_UntrackedIsNoOp ==
  (ev.op \in {"resolve", "dispatch"} /\ ~ev.watched)
    => pc # "handler" /\ ev.hres = ""

(***************************************************************************)
(* C9  StartListening returns only after the stop signal was raised, and   *)
(* then with no error; no error makes it return.                           *)
(***************************************************************************)
C9_ReturnsOnlyOnCancel ==
  /\ pc = "stopped" => stopClosed /\ ctxDone /\ ret = "nil"
  /\ ret # "none" => pc = "stopped"

C9_Witness ==
  /\ pc = "stopped" /\ ret = "nil"
  /\ ev.op = "dispatch" /\ ev.hres = "error"

(***************************************************************************)
(* C6  Convergence: once the remote entries stop changing, the server      *)
(* reports every key whose advertised fingerprint differs and nothing      *)
(* fails any more, the fingerprint of every watched record eventually      *)
(* equals the remote one for good and its mirror reflects the remote       *)
(* entry, whatever happened before.                                        *)
(***************************************************************************)
Converged ==
  \A k \in DOMAIN currentItems :
    LET it == items[currentItems[k]]
        v == remote[Triple(it.DataID, it.Group, it.Tenant)]
    IN /\ it.MD5 = ServerMD5(v)
       /\ mirror[SkillNameOf(it.Group)] = v

C6_Convergence ==
  <>[]((stable /\ ~stopClosed /\ pc # "crashed") => Converged)

(***************************************************************************)
(* C10  Once the stop signal is raised the loop eventually reaches         *)
(* Stopped, from any position, provided every fetch and handler call       *)
(* returns (a handler that panics ends the process instead).               *)
(***************************************************************************)
C10_StopLeadsToStopped ==
  stopClosed ~> (pc = "stopped" \/ pc = "crashed")

C10_Witness ==
  /\ stopClosed /\ ctxDone
  /\ pc = "stopped"
  /\ batch = <<>>

C12_NoDispatchAfterCancel ==
  [][ctxDone => ~(pc # "handler" /\ pc' = "handler")]_vars

(***************************************************************************)
(* C13  At most one handler invocation is in progress at any time: a       *)
(* handler starts only from the loop between two notifications, and while  *)
(* it runs no other notification is taken; the notifications of a batch    *)
(* are taken one by one from the front, in the order of the response.      *)
(***************************************************************************)
C13_SequentialInOrder ==
  [][/\ (pc # "handler" /\ pc' = "handler")
          => /\ pc = "iter" /\ cur = NoCur
             /\ cur'.changed = Head(batch)
     /\ (batch # <<>> /\ batch' # batch)
          => /\ pc = "iter"
             /\ batch' = Tail(batch)
             /\ ev'.op = "resolve" /\ ev'.changed = Head(batch)
     /\ pc = "handler" => batch' = batch
     /\ (pc = "handler") = (cur # NoCur)]_vars

C13_Witness ==
  /\ pc = "iter" /\ batch # <<>>
  /\ ev.op = "dispatch" /\ ev.hres = "nil"
  /\ Head(batch) # ev.changed

(***************************************************************************)
(* C14  A fetch that fails for a reason other than not-found leaves the    *)
(* whole Watch Set and the mirror untouched, calls no handler, and the     *)
(* loop goes on with the rest of the batch.                                *)
(***************************************************************************)
C14_FetchFailureIsSkipped ==
  [][(pc = "iter" /\ batch' # batch /\ ev'.fetch = "other")
       => /\ items' = items
          /\ currentItems' = currentItems
          /\ mirror' = mirror
          /\ cur' = NoCur
          /\ batch' = Tail(batch)
          /\ pc' = NextPc(batch')]_vars

C14_Witness ==
  /\ ev.op = "resolve" /\ ev.fetch = "other" /\ ev.watched
  /\ pc = "iter" /\ batch # <<>>
  /\ EvItem.MD5 # ServerMD5(remote[FetchedBy(ev.changed, ev.fetchTenant)])

(***************************************************************************)
(* C15  A failed long-poll is never fatal: the Watch Set is unchanged, no  *)
(* handler is called, the loop passes through the backoff wait and then    *)
(* polls again with the payload it advertised before; only when the        *)
(* session is cancelled it goes to Stopped, with no error.                 *)
(***************************************************************************)
C15_PollErrorBacksOff ==
  [][/\ (pc = "longPoll" /\ ev'.poll \in {"error", "cancelled"})
          => /\ items' = items
             /\ currentItems' = currentItems
             /\ mirror' = mirror
             /\ cur' = NoCur /\ batch' = <<>>
             /\ listeningConfigs = buildListeningConfigs(items')
             /\ IF ctxDone THEN pc' = "stopped" /\ ret' = "nil"
                           ELSE pc' = "sleep" /\ ret' = "none"
     /\ pc = "sleep"
          => /\ items' = items /\ mirror' = mirror
             /\ pc' \in {"sleep", "select"}
     /\ (pc = "select" /\ ev.poll = "error" /\ pc' = "longPoll")
          => listeningConfigs' = buildListeningConfigs(items)]_vars

C15_Witness ==
  /\ pc = "select" /\ ev.poll = "error"
  /\ ~ctxDone
  /\ \E i \in 1..Len(items) : items[i].MD5 # ""

(***************************************************************************)
(* C16  A long-poll that succeeds with an empty body is "nothing changed": *)
(* the loop goes straight back to polling, with no backoff wait, no fetch, *)
(* no handler call and the Watch Set unchanged.                            *)
(***************************************************************************)
C16_EmptyBodyIsNoChange ==
  [][(pc = "longPoll" /\ ev'.poll = "empty")
       => /\ pc' = "select" /\ ret' = ret
          /\ items' = items
          /\ currentItems' = currentItems
          /\ mirror' = mirror
          /\ cur' = NoCur /\ batch' = <<>>]_vars

C16_Witness ==
  /\ pc = "select" /\ ev.poll = "empty"
  /\ ~ctxDone

(***************************************************************************)
(* C17  A response body that cannot be decoded drops the whole batch: no   *)
(* notification of it is fetched or dispatched, the Watch Set is           *)
(* unchanged and the loop goes on polling.                                 *)
(***************************************************************************)
C17_MalformedBodyDropsBatch ==
  [][(pc = "longPoll" /\ ev'.poll = "malformed")
       => /\ batch' = <<>> /\ cur' = NoCur
          /\ pc' = "select" /\ ret' = ret
          /\ items' = items
          /\ currentItems' = currentItems
          /\ mirror' = mirror]_vars

C17_Witness ==
  /\ pc = "select" /\ ev.poll = "malformed"
  /\ batch = <<>>

(***************************************************************************)
(* C18  The watched keys never change during a session, and a fingerprint  *)
(* changes only for the key of the notification being processed, when its  *)
(* handler returns: after a success, or on a deletion first observed       *)
(* (then to empty); every other entry keeps its fingerprint.               *)
(***************************************************************************)
C18_WatchSetFrame ==
  [][/\ currentItems' = currentItems
     /\ Len(items') = Len(items)
     /\ \A i \in 1..Len(items) :
          /\ ItemKey(items'[i]) = ItemKey(items[i])
          /\ items'[i].MD5 # items[i].MD5
               => /\ pc = "handler"
                  /\ cur.key \in DOMAIN currentItems
                  /\ i = currentItems[cur.key]
                  /\ ItemKey(items[i]) = cur.key
                  /\ \/ ev'.hres = "nil"
                     \/ cur.deleted /\ items'[i].MD5 = ""]_vars

C18_Witness ==
  /\ Len(items) = 2
  /\ ev.op = "dispatch" /\ ev.watched /\ ev.others
  /\ EvItem.MD5 # ev.pre
  /\ \E i \in 1..Len(items) : items[i].MD5 \notin {"", EvItem.MD5}

(***************************************************************************)
(* C19  When a Deleted verdict was dispatched and the handler returned     *)
(* success the mirror of the record does not exist; when an Updated        *)
(* verdict was dispatched and the handler returned success the mirror has  *)
(* been materialized - whatever happened to the remote entry between the   *)
(* fetch of the resolver and the re-fetch of the handler.  Stated for the  *)
(* notifications whose fetch used the tenant of the watched key.           *)
(***************************************************************************)
C19_HandlerFollowsVerdict ==
  (ev.op = "dispatch" /\ ev.hres = "nil" /\ ev.watched
     /\ ev.fetchTenant = ev.normalizedTenant)
    => IF ev.verdict = "Deleted"
         THEN mirror[SkillNameOf(ev.changed.Group)] = Absent
         ELSE mirror[SkillNameOf(ev.changed.Group)] # Absent

(***************************************************************************)
(* C20  The handler propagates every failure of the re-materialization:    *)
(* when it returns success after an attempt of GetSkill, no constituent    *)
(* entry of the record (skill.json or a resource) failed to be fetched,    *)
(* parsed or written in that attempt.                                      *)
(***************************************************************************)
C20_FailurePropagates ==
  (gs.pc = "done" /\ gs.result = "nil" /\ gs.attempt > 0) => ~gs.skipped

(***************************************************************************)
(* C21  StartSyncMultiple fails only when the list of names is empty or    *)
(* when no record could be seeded, and then before the watch loop is       *)
(* started; a record whose fetch or materialization fails for a reason     *)
(* other than not-found is skipped and the other records are still seeded. *)
(***************************************************************************)
C21_SeedFailsOnlyWithoutItems ==
  sd.pc = "done"
    => /\ (sd.result = "error")
            = (Len(sd.skillNames) = 0 \/ Len(sd.items) = 0)
       /\ sd.result \in {"error", "listening"}
       /\ Len(sd.fetched) = Len(sd.skillNames)
       /\ [i \in 1..Len(sd.items) |-> sd.items[i].Group]
            = [i \in 1..Len(SeedKept(sd.skillNames, sd.fetched)) |->
                 GroupOf(SeedKept(sd.skillNames, sd.fetched)[i])]

C21_Witness ==
  /\ sd.pc = "done" /\ sd.result = "listening"
  /\ Len(sd.skillNames) = 2 /\ Len(sd.items) = 1
  /\ sd.fetched[1] = "fetchErr"

(***************************************************************************)
(* C22  Seeding: a record whose fetch reports not-found is watched with    *)
(* the empty fingerprint and has no mirror afterwards; a record whose      *)
(* fetch succeeds is materialized and watched with the fingerprint of the  *)
(* content.  When the watch loop starts every watched entry with a         *)
(* fingerprint has a mirror and every one without has none.                *)
(***************************************************************************)
C22_SeedingMatchesRemote ==
  (sd.pc = "done" /\ sd.result = "listening")
    => /\ \A i \in 1..Len(sd.fetched) :
            sd.fetched[i] \in {"notfound", "empty", "materialized"}
              => \E j \in 1..Len(sd.items) :
                   sd.items[j].Group = GroupOf(sd.skillNames[i])
       /\ \A k \in DOMAIN BuildCurrentItems(sd.items) :
            LET it == sd.items[BuildCurrentItems(sd.items)[k]]
                m == sd.mirror[SkillNameOf(it.Group)]
            IN IF it.MD5 = "" THEN m = Absent ELSE m = "v1"

(***************************************************************************)
(* C23  buildListeningConfigs writes every watched entry, in list order,   *)
(* as data-id, group, fingerprint and, only if the tenant is non-empty,    *)
(* tenant, separated by byte 0x02 and ended by byte 0x01, and              *)
(* percent-encodes the text: the payload holds no raw delimiter, and       *)
(* undoing the encoding gives one entry per item, of three fields when the *)
(* tenant is empty and of four otherwise.                                  *)
(***************************************************************************)
C23_PayloadLayout ==
  (cd.pc # "idle" /\ cd.kind = "watch" /\ cd.pc # "input")
    => /\ \A k \in 1..Len(cd.payload) :
            cd.payload[k] \notin {EntrySep, FieldSep, " "}
       /\ ~urlQueryUnescape(cd.payload).err
       /\ DelimiterFree(cd.items)
            => LET ents == Split(urlQueryUnescape(cd.payload).bytes, EntrySep)
               IN /\ Len(ents) = Len(cd.items) + 1
                  /\ ents[Len(ents)] = <<>>
                  /\ \A i \in 1..Len(cd.items) :
                       Split(ents[i], FieldSep)
                         = IF cd.items[i].Tenant = <<>>
                           THEN <<cd.items[i].DataID, cd.items[i].Group,
                                  cd.items[i].MD5>>
                           ELSE <<cd.items[i].DataID, cd.items[i].Group,
                                  cd.items[i].MD5, cd.items[i].Tenant>>

C23_Witness ==
  /\ cd.pc = "payload" /\ cd.kind = "watch"
  /\ Len(cd.items) = 2
  /\ cd.items[1].Tenant = <<>> /\ cd.items[2].Tenant = <<"t">>
  /\ cd.payload = <<"d", "%", "0", "2", "g", "%", "0", "2", "5", "%", "0", "1",
                    "d", "%", "0", "2", "g", "%", "0", "2", "5", "%", "0", "2",
                    "t", "%", "0", "1">>

(***************************************************************************)
(* C24  parseChangedConfigs undoes the percent-encoding, splits on the     *)
(* entry delimiter and then on the field delimiter, drops every entry of   *)
(* fewer than two fields, takes data-id and group from the first two       *)
(* fields and the tenant from the fourth field if there is one (empty      *)
(* otherwise), and returns the notifications in the order of the response. *)
(***************************************************************************)
C24_DecodedLayout ==
  (cd.pc = "done" /\ cd.kind = "response")
    => IF cd.cut THEN cd.decoded = <<>>
       ELSE LET AtLeastTwo(l) == Len(l) >= 2
                kept == SelectSeq(cd.lines, AtLeastTwo)
            IN cd.decoded
                 = [i \in 1..Len(kept) |->
                      [DataID |-> kept[i][1], Group |-> kept[i][2],
                       MD5 |-> <<>>,
                       Tenant |-> IF Len(kept[i]) >= 4 THEN kept[i][4]
                                  ELSE <<>>]]

C24_Witness ==
  /\ cd.pc = "done" /\ cd.kind = "response" /\ ~cd.cut
  /\ Len(cd.lines) = 2
  /\ Len(cd.lines[1]) = 1 /\ Len(cd.lines[2]) = 4
  /\ Len(cd.decoded) = 1
  /\ cd.decoded[1].Tenant = <<"t">>

(***************************************************************************)
(* C25  Round trip: decoding the payload built from a watch list whose     *)
(* fields hold neither delimiter byte gives back the (data-id, group,      *)
(* tenant) triples of the list, as many and in the same order, without the *)
(* fingerprints.                                                           *)
(***************************************************************************)
C25_RoundTrip ==
  (cd.pc = "done" /\ cd.kind = "watch" /\ DelimiterFree(cd.items))
    => cd.decoded
         = [i \in 1..Len(cd.items) |->
              [DataID |-> cd.items[i].DataID, Group |-> cd.items[i].Group,
               MD5 |-> <<>>, Tenant |-> cd.items[i].Tenant]]

C25_Witness ==
  /\ cd.pc = "done" /\ cd.kind = "watch" /\ DelimiterFree(cd.items)
  /\ Len(cd.items) = 2 /\ Len(cd.decoded) = 2
  /\ cd.items[1].Group = <<"+">> /\ cd.items[1].MD5 = <<"5">>
  /\ cd.items[2].Tenant = <<"%", "0", "2">>

(***************************************************************************)
(* C26  Empty content has a fingerprint of its own, which is never the     *)
(* empty string that stands for an absent entry: an entry fetched with     *)
(* empty content is resolved as Updated against an empty stored            *)
(* fingerprint (the handler is called for an update), as Unchanged against *)
(* the fingerprint of the empty content, and never as Deleted.             *)
(***************************************************************************)
C26_EmptyContentIsNotAbsent ==
  /\ \A c \in Contents : CalculateMD5(c) # ""
  /\ (ev.op = "resolve" /\ ev.fetch = "nil" /\ ev.watched
        /\ ev.newMD5 = CalculateMD5(""))
       => /\ ev.newMD5 # ""
          /\ ev.verdict = (IF ev.pre = "" THEN "Updated"
                           ELSE IF ev.pre = CalculateMD5("")
                           THEN "Unchanged" ELSE "Updated")
          /\ ev.verdict = "Updated" => pc = "handler" /\ ~cur.deleted

C26_Witness ==
  /\ ev.op = "resolve" /\ ev.fetch = "nil" /\ ev.watched
  /\ ev.newMD5 = "d41d8cd98f00b204e9800998ecf8427e"
  /\ ev.pre = "" /\ ev.verdict = "Updated"
  /\ pc = "handler" /\ ~cur.deleted

(***************************************************************************)
(* C27  Configuration priority: server host, server port, username,        *)
(* password and namespace each take the value of the command line if       *)
(* given, else the value of the configuration file if it has one, else the *)
(* default, whatever the combination (no --server, hosts without a port    *)
(* of their own).                                                          *)
(***************************************************************************)
C27_ConfigurationPriority ==
  (cl.pc = "configured" /\ cl.flags.server = ""
     /\ cl.flags.host \notin HostsWithPort /\ cl.file.Host \notin HostsWithPort)
    => /\ cl.serverAddr
            = TextSetting(cl.flags.host, cl.file, cl.file.Host, "127.0.0.1")
              \o ":"
              \o ToString(IF cl.flags.port > 0 THEN cl.flags.port
                          ELSE IF cl.file.loaded /\ cl.file.Port > 0
                          THEN cl.file.Port
                          ELSE DefaultPort)
       /\ cl.username = (IF cl.flags.username # "" THEN cl.flags.username
                         ELSE IF cl.file.loaded /\ cl.file.Username # ""
                         THEN cl.file.Username ELSE "nacos")
       /\ cl.password = (IF cl.flags.password # "" THEN cl.flags.password
                         ELSE IF cl.file.loaded /\ cl.file.Password # ""
                         THEN cl.file.Password ELSE "nacos")
       /\ cl.namespace = (IF cl.flags.namespace # "" THEN cl.flags.namespace
                          ELSE IF cl.file.loaded /\ cl.file.Namespace # ""
                          THEN cl.file.Namespace ELSE "")

(***************************************************************************)
(* C28  login posts the v3 login first and the v1 login only when the v3   *)
(* login did not succeed; authLoginVersion is the version of the first     *)
(* successful login, so once a v3 login succeeded it is "v3" and later     *)
(* logins leave it so.                                                     *)
(***************************************************************************)
C28_V1OnlyAfterV3Failed ==
  (cl.pc = "ready" /\ cl.AuthType = "nacos")
    => /\ cl.v3ok => cl.posted = <<"v3">>
       /\ cl.first = "v3" => cl.authLoginVersion = "v3"

(***************************************************************************)
(* C30  The change handler of the orchestrator returns a result, success   *)
(* or an error value, whatever its own fetch of the entry gives:           *)
(* not-found, another failure, content, or empty content.  It never        *)
(* crashes.                                                                *)
(***************************************************************************)
C30_HandlerAlwaysReturns ==
  gs.pc = "done" => gs.result \in {"nil", "error"}

(***************************************************************************)
(* C31  Every entry of the list given to StartListening has a tracked      *)
(* fingerprint of its own: after a successful dispatch for a triple, every *)
(* entry of that triple advertised in the next long-poll carries the       *)
(* updated fingerprint, also when the list names the triple twice.  The    *)
(* next request is the serialization of the list as the dispatch left it.  *)
(***************************************************************************)
C31_EveryEntryTracked ==
  (ev.op = "dispatch" /\ ev.hres = "nil" /\ ev.watched)
    => \A n \in 1..Len(buildListeningConfigs(items)) :
         LET e == buildListeningConfigs(items)[n]
         IN Key(e[1], e[2], EntryTenant(e)) = ev.key
              => e[3] = (IF ev.verdict = "Updated" THEN ev.newMD5 ELSE "")

(***************************************************************************)
(* C32  The verdict of a notification is taken against the Watch Set as    *)
(* the earlier notifications of the same batch left it: when a response    *)
(* lists a key twice and the remote content does not change in between,    *)
(* the handler is called at most once for the key in the batch, provided   *)
(* the first call succeeded.  After a successful dispatch whose entry has  *)
(* not changed since, the next notification of the batch with the same key *)
(* does not reach the handler.                                             *)
(***************************************************************************)
C32_OncePerKeyInBatch ==
  [][(/\ pc = "iter" /\ batch # <<>>
      /\ ev.op = "dispatch" /\ ev.hres = "nil" /\ ev.settled
      /\ \E nt \in AdoptedTenants(items, currentItems, NextChanged(batch)) :
           Key(NextChanged(batch).DataID, NextChanged(batch).Group, nt)
             = ev.key)
       => pc' # "handler"]_vars

(***************************************************************************)
(* C33  On a successful fetch the resolver computes the fingerprint from   *)
(* the returned content: what it compares with the Watch Set, and stores   *)
(* after a successful Updated dispatch, is the hash of the fetched bytes,  *)
(* the function the orchestrator seeded the entry with, so an entry whose  *)
(* content has the stored fingerprint is resolved as Unchanged.            *)
(***************************************************************************)
C33_FingerprintFromContent ==
  /\ (fc.pc # "idle" /\ fc.op = "resolve" /\ fc.err = "nil")
       => /\ fc.newMD5 = CalculateMD5(fc.fetched)
          /\ fc.pre = CalculateMD5(fc.fetched) => fc.verdict = "Unchanged"
  /\ (fc.pc # "idle" /\ fc.op = "dispatch" /\ fc.hres = "nil"
        /\ fc.verdict = "Updated")
       => fc.md5 = CalculateMD5(fc.fetched)

(***************************************************************************)
(* C34  A GetSkill that returns an error leaves the mirror of the record   *)
(* as it was: in particular after a uniformId mismatch no resource file of *)
(* the new version has been written.                                       *)
(***************************************************************************)
C34_FailedGetSkillWritesNothing ==
  (gs.pc = "done" /\ gs.result = "error" /\ gs.attempt > 0)
    => gs.written = {}

(***************************************************************************)
(* C35  GetSkill ends after at most 3 attempts: an attempt is repeated     *)
(* only after a uniformId mismatch, any other error is returned at once,   *)
(* the first successful attempt returns success, and a mismatch in the 3rd *)
(* attempt returns that error.                                             *)
(***************************************************************************)
C35_AtMostThreeAttempts ==
  /\ [](/\ gs.attempt <= 3
        /\ (gs.pc \in {"attempt", "resource"} /\ gs.attempt > 1)
             => gs.err = "mismatch"
        /\ (gs.pc = "done" /\ gs.result = "error" /\ gs.err = "mismatch")
             => gs.attempt = 3)
  /\ [][gs.pc = "failed"
          => IF gs.err = "mismatch" /\ gs.attempt < 3
             THEN gs'.pc = "attempt" /\ gs'.attempt = gs.attempt + 1
             ELSE /\ gs'.pc = "done" /\ gs'.result = "error"
                  /\ gs'.err = gs.err /\ gs'.attempt = gs.attempt]_vars
  /\ [][(gs.attempt > 0 /\ gs'.result = "nil")
          => gs'.pc = "done" /\ gs'.attempt = gs.attempt]_vars
  /\ <>(gs.pc = "done")

C35_Witness ==
  /\ gs.pc = "done" /\ gs.result = "error"
  /\ gs.err = "mismatch" /\ gs.attempt = 3

====
